---- MODULE Spec2Model ----
(***************************************************************************)
(* Simulation Station: the composition root (App), its fixed-timestep      *)
(* scheduler, the async bridge (AsyncSim<CollatzState>) with its worker    *)
(* threads and zero-capacity hand-off channel, the Collatz recipe          *)
(* (p0014::solve) and the inline PixelFillSim.                             *)
(*                                                                         *)
(* Time is counted in ticks of 1/TicksPerSecond s and rates in units of    *)
(* 1/RateDen Hz, chosen so that every step_duration used is a whole number *)
(* of ticks. SpecF32 runs the scheduler with the f32 arithmetic of the     *)
(* source instead (bit patterns, round to nearest even).                   *)
(***************************************************************************)
EXTENDS Integers, Sequences, FiniteSets, TLC

\* ---------------------------------------------------------------- bounds
\* The recipe's range 1..1_000_000 is cut to 1..LastNum.
LastNum == 3
\* Worker threads (and hand-off channels) created over one run.
NumWorkers == 2
\* The 400 x 300 grid of PixelFillSim is cut to GridWidth x GridHeight.
GridWidth == 2
GridHeight == 2
\* A frame is only taken while the accumulated time stays within MaxAcc.
MaxAcc == 18002
\* Scheduling passes of a measured run.
MaxFrames == 60
\* The 525.0 of p0014::render (the longest sequence below 1_000_000), cut to
\* the sequences of 1..LastNum: a bar of LenScale fills the height.
LenScale == 4
\* Buffers handed to render are at most MaxSlack bytes longer than the image.
MaxSlack == 3
\* The recipe's range when the recipe is followed on its own: 1..SolveLast.
SolveLast == 403

\* ----------------------------------------------------------------- units
TicksPerSecond == 30000
RateDen == 2

\* ------------------------------------------------------ program constants
MaxLoops == 5000
HistoryCap == 400
FillCount == 1000
\* Variant: sync_channel(1), a one-slot buffer instead of a rendezvous.
ChannelCapacity_one == Len(<<"slot">>)
ChannelCapacity == 0
InitialRate == 60 * RateDen

\* Frame durations (stable_dt) in ticks: a frame of 1/60 s, and a stalled
\* frame of 0.55 s.
DtSet == {500}
StallSet == {16500}
\* Values the rate slider is dragged to: 60 Hz, and its maximum of 10 000 Hz.
SliderRates == {60 * RateDen}
FastRates == {10000 * RateDen}
SimKinds == {"None", "PixelFill", "Collatz"}

VARIABLES
    current_sim,        \* App.current_sim: which capability is active
    sim_config,         \* the SimConfig of the active capability (AsyncSim.config)
    is_paused,          \* App.is_paused
    updates_per_second, \* App.updates_per_second, in 1/RateDen Hz
    time_accumulator,   \* App.time_accumulator, in ticks
    hpc,                \* position of the host thread inside App::update
    acc_in,             \* time_accumulator right after `+= dt` of this pass
    step_duration,      \* local step_duration of this pass
    loops,              \* local loops of this pass
    state,              \* AsyncSim.state
    receiver,           \* AsyncSim.receiver: id of the channel, 0 = no bridge
    workers,            \* the worker threads, by id (= id of their channel)
    channel,            \* buffered messages of each channel
    cursor_idx,         \* PixelFillSim.cursor_idx
    cells,              \* PixelFillSim.grid.cells
    observed,           \* history: snapshots update() stored since the last reset
    last_poll,          \* history: outcome of the last update() of the bridge
    panel_calls,        \* history: update() calls made by the panel this frame
    meter,              \* history: the passes and update() calls of a measured run
    pixel_buffer        \* the Vec<u8> handed to render

vars == <<current_sim, sim_config, is_paused, updates_per_second, time_accumulator, hpc,
          acc_in, step_duration, loops, state, receiver, workers, channel,
          cursor_idx, cells, observed, last_poll, panel_calls, meter, pixel_buffer>>

appVars    == <<current_sim, sim_config, is_paused, updates_per_second,
               time_accumulator>>
passVars   == <<acc_in, step_duration, loops>>
bridgeVars == <<state, receiver, observed, last_poll>>
threadVars == <<workers, channel>>
gridVars   == <<cursor_idx, cells>>
hostVars   == <<current_sim, sim_config, is_paused, updates_per_second,
                time_accumulator, hpc, acc_in, step_duration, loops, state, receiver,
                cursor_idx, cells, observed, last_poll, panel_calls, meter, pixel_buffer>>

WorkerIds == 1..NumWorkers
NumCells == GridWidth * GridHeight

\* ------------------------------------------------------------- SimConfig
DefaultConfig ==
    [min_speed |-> 1 * RateDen, max_speed |-> 10000 * RateDen,
     default_speed |-> 60 * RateDen]

CollatzConfig ==
    [min_speed |-> 1 * RateDen, max_speed |-> 50000 * RateDen,
     default_speed |-> 10000 * RateDen]

config(kind) == IF kind = "Collatz" THEN CollatzConfig ELSE DefaultConfig

\* ---------------------------------------------------------- p0014::solve
CollatzState_default ==
    [current_num |-> 0, current_len |-> 0, best_num |-> 0, best_len |-> 0,
     history |-> << >>]

RECURSIVE CollatzLen(_, _)
CollatzLen(n, len) ==
    IF n > 1 /\ len >= 1    \* len starts at 1: the test only evaluates it
    THEN CollatzLen(IF n % 2 = 0 THEN n \div 2 ELSE 3 * n + 1, len + 1)
    ELSE len

\* Variant: `>=` in the record test.
solve_step_ge_record(s, i) ==
    LET len == CollatzLen(i, 1)
        pushed == Append(s.history, len)
        hist == IF Len(pushed) > HistoryCap THEN Tail(pushed) ELSE pushed
        record == len >= s.best_len
    IN  [current_num |-> i,
         current_len |-> len,
         history     |-> hist,
         best_len    |-> IF record THEN len ELSE s.best_len,
         best_num    |-> IF record THEN i ELSE s.best_num]

\* One turn of the for loop up to (not including) the send.
solve_step(s, i) ==
    LET len == CollatzLen(i, 1)
        pushed == Append(s.history, len)
        hist == IF Len(pushed) > HistoryCap THEN Tail(pushed) ELSE pushed
        record == len > s.best_len
    IN  [current_num |-> i,
         current_len |-> len,
         history     |-> hist,
         best_len    |-> IF record THEN len ELSE s.best_len,
         best_num    |-> IF record THEN i ELSE s.best_num]

\* The snapshot sent for number k by a recipe that runs undisturbed.
RECURSIVE RecipeOutput(_)
RecipeOutput(k) ==
    IF k = 0 THEN CollatzState_default ELSE solve_step(RecipeOutput(k - 1), k)

Unborn == [pc |-> "unborn", i |-> 0, state |-> CollatzState_default, chan |-> 0]

\* A thread that has returned from solve: its locals and its sender are gone.
Exited(how) == [pc |-> how, i |-> 0, state |-> CollatzState_default, chan |-> 0]

Spawned == Cardinality({w \in WorkerIds : workers[w].pc # "unborn"})

\* The receiving half of channel c is alive: the bridge holds it.
Connected(c) == c # 0 /\ receiver = c

\* Variant: the range ends one number early.
WorkerCompute_stops_early(w) ==
    /\ workers[w].pc = "compute"
    /\ IF workers[w].i >= LastNum - 1
       THEN workers' = [workers EXCEPT ![w] = Exited("done")]
       ELSE LET i == workers[w].i + 1
                s == solve_step(workers[w].state, i)
            IN  workers' = [workers EXCEPT ![w].pc = "send",
                                           ![w].i = i,
                                           ![w].state = s]
    /\ UNCHANGED <<channel, hostVars>>

\* Top of the for loop: the range is exhausted and solve returns, or the
\* next number is processed and the thread enters tx.send.
WorkerCompute(w) ==
    /\ workers[w].pc = "compute"
    /\ IF workers[w].i >= LastNum
       THEN workers' = [workers EXCEPT ![w] = Exited("done")]
       ELSE LET i == workers[w].i + 1
                s == solve_step(workers[w].state, i)
            IN  workers' = [workers EXCEPT ![w].pc = "send",
                                           ![w].i = i,
                                           ![w].state = s]
    /\ UNCHANGED <<channel, hostVars>>

\* The recipe panics while it computes: the thread dies and drops its sender.
WorkerPanic(w) ==
    /\ workers[w].pc = "compute"
    /\ workers' = [workers EXCEPT ![w] = Exited("panicked")]
    /\ UNCHANGED <<channel, hostVars>>

\* tx.send on its own: an error once the receiver is gone (break), the
\* message queued while the channel has room; otherwise the thread stays
\* blocked until the receiver takes the message (see try_recv).
\* Variant: a send that never reports the missing receiver.
WorkerSend_never_fails(w) ==
    /\ workers[w].pc = "send"
    /\ Connected(workers[w].chan)
    /\ Len(channel[workers[w].chan]) < ChannelCapacity
    /\ channel' = [channel EXCEPT ![workers[w].chan] = Append(@, workers[w].state)]
    /\ workers' = [workers EXCEPT ![w].pc = "compute"]
    /\ UNCHANGED hostVars

WorkerSend(w) ==
    /\ workers[w].pc = "send"
    /\ IF ~Connected(workers[w].chan)
       THEN /\ workers' = [workers EXCEPT ![w] = Exited("stopped")]
            /\ UNCHANGED channel
       ELSE /\ Len(channel[workers[w].chan]) < ChannelCapacity
            /\ channel' = [channel EXCEPT ![workers[w].chan] =
                               Append(@, workers[w].state)]
            /\ workers' = [workers EXCEPT ![w].pc = "compute"]
    /\ UNCHANGED hostVars

\* ------------------------------------------------------------- AsyncSim
\* Senders blocked in send on the channel the bridge polls.
Waiting == {w \in WorkerIds : workers[w].pc = "send" /\ Connected(workers[w].chan)}

\* Variant: the received snapshot is dropped instead of stored.
AsyncSim_update_discard ==
    IF Waiting # {}
    THEN \E w \in Waiting :
            /\ workers' = [workers EXCEPT ![w].pc = "compute"]
            /\ observed' = Append(observed, state)
            /\ last_poll' = "took"
            /\ UNCHANGED <<state, receiver, channel>>
    ELSE /\ last_poll' = "empty"
         /\ UNCHANGED <<state, receiver, observed, workers, channel>>

\* Variant: rx.recv() instead of rx.try_recv(): it returns once a sender hands
\* over a snapshot or every sender is gone, and waits otherwise.
AsyncSim_update_blocking ==
    IF Waiting # {}
    THEN \E w \in Waiting :
            /\ state' = workers[w].state
            /\ workers' = [workers EXCEPT ![w].pc = "compute"]
            /\ observed' = Append(observed, state')
            /\ last_poll' = "took"
            /\ UNCHANGED <<receiver, channel>>
    ELSE /\ \A w \in WorkerIds : workers[w].chan # receiver
         /\ last_poll' = "empty"
         /\ UNCHANGED <<state, receiver, observed, workers, channel>>

\* Variant: the received snapshot is merged into the state field by field,
\* the history left as it was.
AsyncSim_update_merge ==
    IF Waiting # {}
    THEN \E w \in Waiting :
            /\ state' = [workers[w].state EXCEPT !.history = state.history]
            /\ workers' = [workers EXCEPT ![w].pc = "compute"]
            /\ observed' = Append(observed, state')
            /\ last_poll' = "took"
            /\ UNCHANGED <<receiver, channel>>
    ELSE /\ last_poll' = "empty"
         /\ UNCHANGED <<state, receiver, observed, workers, channel>>

AsyncSim_update ==
    IF receiver # 0 /\ channel[receiver] # << >>
    THEN /\ state' = Head(channel[receiver])
         /\ channel' = [channel EXCEPT ![receiver] = Tail(@)]
         /\ observed' = Append(observed, state')
         /\ last_poll' = "took"
         /\ UNCHANGED <<receiver, workers>>
    ELSE IF Waiting # {}
    THEN \E w \in Waiting :
            /\ state' = workers[w].state
            /\ workers' = [workers EXCEPT ![w].pc = "compute"]
            /\ observed' = Append(observed, state')
            /\ last_poll' = "took"
            /\ UNCHANGED <<receiver, channel>>
    ELSE /\ last_poll' = "empty"
         /\ UNCHANGED <<state, receiver, observed, workers, channel>>

\* Variant: reset() without `self.state = T::default()`.
AsyncSim_reset_keeps_state ==
    LET id == Spawned + 1 IN
    /\ Spawned < NumWorkers
    /\ receiver' = id
    /\ state' = state
    /\ workers' = [workers EXCEPT ![id] =
                      [pc |-> "compute", i |-> 0, state |-> CollatzState_default,
                       chan |-> id]]
    /\ channel' = [c \in WorkerIds |-> IF c = receiver THEN << >> ELSE channel[c]]
    /\ observed' = << >>
    /\ last_poll' = "none"

\* Variant: reset() keeps the channel it has and hands the new thread another
\* sender of it.
AsyncSim_reset_same_channel ==
    LET id == Spawned + 1 IN
    /\ Spawned < NumWorkers
    /\ receiver' = (IF receiver = 0 THEN id ELSE receiver)
    /\ state' = CollatzState_default
    /\ workers' = [workers EXCEPT ![id] =
                      [pc |-> "compute", i |-> 0, state |-> CollatzState_default,
                       chan |-> receiver']]
    /\ UNCHANGED channel
    /\ observed' = << >>
    /\ last_poll' = "none"

\* reset(), also run by new(): a new channel, the default state, a new thread.
AsyncSim_reset ==
    LET id == Spawned + 1 IN
    /\ Spawned < NumWorkers
    /\ receiver' = id
    /\ state' = CollatzState_default
    /\ workers' = [workers EXCEPT ![id] =
                      [pc |-> "compute", i |-> 0, state |-> CollatzState_default,
                       chan |-> id]]
    /\ channel' = [c \in WorkerIds |-> IF c = receiver THEN << >> ELSE channel[c]]
    /\ observed' = << >>
    /\ last_poll' = "none"

\* The bridge is dropped with its receiver.
AsyncSim_drop ==
    /\ receiver' = 0
    /\ state' = CollatzState_default
    /\ channel' = [c \in WorkerIds |-> IF c = receiver THEN << >> ELSE channel[c]]
    /\ observed' = << >>
    /\ last_poll' = "none"
    /\ UNCHANGED workers

\* ------------------------------------------------------------------ f32
\* The arithmetic of the f32 fields updates_per_second and time_accumulator
\* (IEEE 754 binary32, round to nearest even), on the bit patterns of zero
\* and of positive normal values: bits = E * 2^23 + F stands for
\* (2^23 + F) * 2^(E - 150). Bit patterns of such values order as the values.
F32Mant(b) == 2^23 + (b % 2^23)
F32Exp(b) == b \div 2^23

F32BitLen(m) == CHOOSE n \in 1..30 : m < 2^n /\ (n = 1 \/ m >= 2^(n - 1))

\* The f32 nearest to m * 2^(e - 150) (m > 0), or to a value above it by less
\* than 2^(e - 150) when sticky.
F32RoundPack(m, e, sticky) ==
    LET k == F32BitLen(m) - 24
    IN  IF k <= 0
        THEN (e + k) * 2^23 + (m * 2^(0 - k) - 2^23)
        ELSE LET q == m \div 2^k
                 rem == m % 2^k
                 half == 2^(k - 1)
                 up == rem > half \/ (rem = half /\ (sticky \/ q % 2 = 1))
             IN  (e + k) * 2^23 + ((IF up THEN q + 1 ELSE q) - 2^23)

\* n as f32, for 0 < n < 2^24 (exact).
F32OfInt(n) == F32RoundPack(n, 150, FALSE)

\* The smaller operand b aligned to the exponent of a, three extra bits kept.
F32Align(a, b) ==
    LET d == F32Exp(a) - F32Exp(b)
    IN  IF d > 27 THEN [m |-> 0, sticky |-> TRUE]
        ELSE [m |-> (F32Mant(b) * 8) \div 2^d,
              sticky |-> (F32Mant(b) * 8) % 2^d # 0]

\* a + b
F32Add(a, b) ==
    IF a = 0 THEN b
    ELSE IF b = 0 THEN a
    ELSE LET hi == IF a >= b THEN a ELSE b
             lo == IF a >= b THEN b ELSE a
             al == F32Align(hi, lo)
         IN  F32RoundPack(F32Mant(hi) * 8 + al.m, F32Exp(hi) - 3, al.sticky)

\* a - b for a >= b
F32Sub(a, b) ==
    IF b = 0 \/ a = b THEN (IF a = b THEN 0 ELSE a)
    ELSE LET al == F32Align(a, b)
             diff == F32Mant(a) * 8 - al.m
         IN  IF al.sticky
             THEN F32RoundPack(diff - 1, F32Exp(a) - 3, TRUE)
             ELSE F32RoundPack(diff, F32Exp(a) - 3, FALSE)

\* The first n bits of rem / mb (rem < 2 * mb), and whether a remainder is left.
RECURSIVE F32LongDiv(_, _, _, _)
F32LongDiv(rem, mb, n, q) ==
    IF n = 0 THEN [q |-> q, sticky |-> rem # 0]
    ELSE IF rem >= mb
         THEN F32LongDiv((rem - mb) * 2, mb, n - 1, 2 * q + 1)
         ELSE F32LongDiv(rem * 2, mb, n - 1, 2 * q)

\* a / b for a, b > 0
F32Div(a, b) ==
    LET r == F32LongDiv(F32Mant(a), F32Mant(b), 27, 0)
    IN  F32RoundPack(r.q, F32Exp(a) - F32Exp(b) + 124, r.sticky)

\* --------------------------------------------------------- PixelFillSim
EmptyGrid ==[k \in 1..NumCells |-> 0]

PixelFill_update_fn(g) ==
    IF g.cursor_idx < Len(g.cells)
    THEN [cells |-> [g.cells EXCEPT ![g.cursor_idx + 1] = 255],
          cursor_idx |-> g.cursor_idx + 1]
    ELSE g

\* update() applied n times in a row (the n calls split in two halves, which
\* keeps the evaluation shallow).
RECURSIVE Repeat_update(_, _)
Repeat_update(g, n) ==
    IF n = 0 THEN g
    ELSE IF n = 1 THEN PixelFill_update_fn(g)
    ELSE LET half == Repeat_update(g, n \div 2)
         IN  IF half.cursor_idx >= 0    \* evaluates the first half first
             THEN Repeat_update(half, n - (n \div 2))
             ELSE half

PixelFill_update ==
    LET g == PixelFill_update_fn([cells |-> cells, cursor_idx |-> cursor_idx])
    IN  cells' = g.cells /\ cursor_idx' = g.cursor_idx

\* Variant: reset() clears the cells and keeps the cursor.
PixelFill_reset_keeps_cursor ==
    /\ cells' = EmptyGrid
    /\ cursor_idx' = cursor_idx

PixelFill_reset ==
    /\ cells' = EmptyGrid
    /\ cursor_idx' = 0

\* ------------------------------------------------------------------ App
StepDuration(rate) == (TicksPerSecond * RateDen) \div rate

\* No run is being measured: dt = p/q s, passes begun, update() calls issued.
Unmetered == [p |-> 0, q |-> 1, frames |-> 0, calls |-> 0]

Init ==
    /\ current_sim = "None"
    /\ sim_config = config("None")
    /\ is_paused = FALSE
    /\ updates_per_second = InitialRate
    /\ time_accumulator = 0
    /\ hpc = "ui"
    /\ acc_in = 0
    /\ step_duration = 0
    /\ loops = 0
    /\ state = CollatzState_default
    /\ receiver = 0
    /\ workers = [w \in WorkerIds |-> Unborn]
    /\ channel = [c \in WorkerIds |-> << >>]
    /\ cursor_idx = 0
    /\ cells = EmptyGrid
    /\ observed = << >>
    /\ last_poll = "none"
    /\ panel_calls = 0
    /\ meter = Unmetered
    /\ pixel_buffer = << >>

\* Variant: loading also clears the accumulated time.
load_sim_clears_accumulator(kind) ==
    /\ hpc = "ui"
    /\ hpc' = "sched"
    /\ sim_config' = config(kind)
    /\ updates_per_second' = sim_config'.default_speed
    /\ current_sim' = kind
    /\ time_accumulator' = 0
    /\ CASE kind = "Collatz"   -> AsyncSim_reset /\ PixelFill_reset
         [] kind = "PixelFill" -> PixelFill_reset /\ AsyncSim_drop
         [] OTHER              -> PixelFill_reset /\ AsyncSim_drop
    /\ UNCHANGED <<is_paused, passVars, panel_calls, meter, pixel_buffer>>

\* load_sim(Box::new(...)): the new capability is built, the rate is set to
\* its default_speed, the old capability is dropped.
load_sim(kind) ==
    /\ hpc = "ui"
    /\ hpc' = "sched"
    /\ sim_config' = config(kind)
    /\ updates_per_second' = sim_config'.default_speed
    /\ current_sim' = kind
    /\ CASE kind = "Collatz"   -> AsyncSim_reset /\ PixelFill_reset
         [] kind = "PixelFill" -> PixelFill_reset /\ AsyncSim_drop
         [] OTHER              -> PixelFill_reset /\ AsyncSim_drop
    /\ UNCHANGED <<is_paused, time_accumulator, passVars, panel_calls, meter, pixel_buffer>>

PauseClick ==
    /\ hpc = "ui"
    /\ hpc' = "sched"
    /\ is_paused' = ~is_paused
    /\ UNCHANGED <<current_sim, sim_config, updates_per_second, time_accumulator, passVars,
                   bridgeVars, threadVars, gridVars, panel_calls, meter, pixel_buffer>>

ResetClick ==
    /\ hpc = "ui"
    /\ hpc' = "sched"
    /\ CASE current_sim = "Collatz"   -> AsyncSim_reset /\ UNCHANGED gridVars
         [] current_sim = "PixelFill" -> PixelFill_reset /\ UNCHANGED <<bridgeVars, threadVars>>
         [] OTHER -> UNCHANGED <<bridgeVars, threadVars, gridVars>>
    /\ UNCHANGED <<appVars, passVars, panel_calls, meter, pixel_buffer>>

\* Variant: the slider converts the accumulated debt to the new rate (the
\* same number of pending steps).
Slider_rescales(rate) ==
    /\ hpc = "ui"
    /\ hpc' = "sched"
    /\ updates_per_second' = rate
    /\ time_accumulator' = (time_accumulator * updates_per_second) \div rate
    /\ UNCHANGED <<current_sim, sim_config, is_paused, passVars,
                   bridgeVars, threadVars, gridVars, panel_calls, meter, pixel_buffer>>

Slider(rate) ==
    /\ hpc = "ui"
    /\ hpc' = "sched"
    /\ updates_per_second' = rate
    /\ UNCHANGED <<current_sim, sim_config, is_paused, time_accumulator, passVars,
                   bridgeVars, threadVars, gridVars, panel_calls, meter, pixel_buffer>>

\* The "Fill 1000x" button of PixelFillSim::ui.
FillClick ==
    /\ hpc = "ui"
    /\ current_sim = "PixelFill"
    /\ hpc' = "sched"
    /\ LET g == Repeat_update([cells |-> cells, cursor_idx |-> cursor_idx], FillCount)
       IN  cells' = g.cells /\ cursor_idx' = g.cursor_idx
    /\ panel_calls' = FillCount
    /\ UNCHANGED <<appVars, passVars, bridgeVars, threadVars, meter, pixel_buffer>>

NoInput ==
    /\ hpc = "ui"
    /\ hpc' = "sched"
    /\ UNCHANGED <<appVars, passVars, bridgeVars, threadVars, gridVars, panel_calls, meter, pixel_buffer>>

\* Variant: the pass runs whether or not the host is paused.
BeginPass_ignores_pause(dt) ==
    /\ hpc = "sched"
    /\ time_accumulator + dt <= MaxAcc
    /\ time_accumulator' = time_accumulator + dt
    /\ acc_in' = time_accumulator + dt
    /\ step_duration' = StepDuration(updates_per_second)
    /\ loops' = 0
    /\ hpc' = "loop"
    /\ UNCHANGED <<current_sim, sim_config, is_paused, updates_per_second, bridgeVars,
                   threadVars, gridVars, panel_calls, meter, pixel_buffer>>

\* `if !self.is_paused {`: dt is added and step_duration computed.
BeginPass(dt) ==
    /\ hpc = "sched"
    /\ ~is_paused
    /\ time_accumulator + dt <= MaxAcc
    /\ time_accumulator' = time_accumulator + dt
    /\ acc_in' = time_accumulator + dt
    /\ step_duration' = StepDuration(updates_per_second)
    /\ loops' = 0
    /\ hpc' = "loop"
    /\ UNCHANGED <<current_sim, sim_config, is_paused, updates_per_second, bridgeVars,
                   threadVars, gridVars, panel_calls, meter, pixel_buffer>>

SkipPass ==
    /\ hpc = "sched"
    /\ is_paused
    /\ hpc' = "skipped"
    /\ UNCHANGED <<appVars, passVars, bridgeVars, threadVars, gridVars, panel_calls, meter, pixel_buffer>>

\* Variants of the loop condition: `>` for `>=`; any positive debt is spent;
\* no iteration cap.
LoopCond_gt == time_accumulator > step_duration /\ loops < MaxLoops
LoopCond_positive == time_accumulator > 0 /\ loops < MaxLoops
LoopCond_nocap == time_accumulator >= step_duration

\* while self.time_accumulator >= step_duration && loops < 5000
LoopCond == time_accumulator >= step_duration /\ loops < MaxLoops

\* self.current_sim.update()
Sim_update ==
    CASE current_sim = "Collatz"   -> AsyncSim_update /\ UNCHANGED gridVars
      [] current_sim = "PixelFill" -> PixelFill_update /\ UNCHANGED <<bridgeVars, threadVars>>
      [] OTHER -> UNCHANGED <<bridgeVars, threadVars, gridVars>>

LoopIter ==
    /\ hpc = "loop"
    /\ LoopCond
    /\ Sim_update
    /\ time_accumulator' = time_accumulator - step_duration
    /\ loops' = loops + 1
    /\ UNCHANGED <<current_sim, sim_config, is_paused, updates_per_second, hpc, acc_in,
                   step_duration, panel_calls, meter, pixel_buffer>>

LoopExit ==
    /\ hpc = "loop"
    /\ ~LoopCond
    /\ hpc' = "spent"
    /\ UNCHANGED <<appVars, passVars, bridgeVars, threadVars, gridVars, panel_calls, meter, pixel_buffer>>

\* The central panel: render reads the capability; the frame ends and its
\* locals go out of scope.
Render ==
    /\ hpc \in {"spent", "skipped"}
    /\ hpc' = "ui"
    /\ acc_in' = 0
    /\ step_duration' = 0
    /\ loops' = 0
    /\ panel_calls' = 0
    /\ pixel_buffer' = << >>
    /\ UNCHANGED <<appVars, bridgeVars, threadVars, gridVars, meter>>

Next ==
    \/ \E kind \in SimKinds : load_sim(kind)
    \/ PauseClick
    \/ ResetClick
    \/ \E rate \in SliderRates : Slider(rate)
    \/ FillClick
    \/ NoInput
    \/ \E dt \in DtSet : BeginPass(dt)
    \/ SkipPass
    \/ LoopIter
    \/ LoopExit
    \/ Render
    \/ \E w \in WorkerIds : WorkerCompute(w)
    \/ \E w \in WorkerIds : WorkerSend(w)

Spec == Init /\ [][Next]_vars

\* The workers are OS threads: each keeps being scheduled.
FairSpec ==
    /\ Spec
    /\ \A w \in WorkerIds : WF_vars(WorkerCompute(w)) /\ WF_vars(WorkerSend(w))

\* A generic recipe may panic.
NextPanic ==
    \/ Next
    \/ \E w \in WorkerIds : WorkerPanic(w)

SpecPanic == Init /\ [][NextPanic]_vars

\* The scheduler under stalled frames, driving the inline capabilities.
NextStall ==
    \/ \E kind \in {"None", "PixelFill"} : load_sim(kind)
    \/ PauseClick
    \/ ResetClick
    \/ \E rate \in SliderRates \cup FastRates : Slider(rate)
    \/ FillClick
    \/ NoInput
    \/ \E dt \in DtSet \cup StallSet : BeginPass(dt)
    \/ SkipPass
    \/ LoopIter
    \/ LoopExit
    \/ Render

SpecStall == Init /\ [][NextStall]_vars

\* ------------------------------------------------- the scheduler in f32
\* The scheduling pass with the f32 arithmetic of the source: here
\* time_accumulator, acc_in and step_duration hold f32 bit patterns, and the
\* run is measured (meter).

\* Frame intervals dt = p/q s of measured runs, and the rates the slider
\* sets for them: its minimum of 0.5 Hz, 10 Hz and its maximum 10 000 Hz.
MeterDts == {<<1, 60>>, <<15, 32>>}
\* Variant: a slider whose range starts at 0.
MeterRates_from_zero == {0, 10 * RateDen, 10000 * RateDen}
MeterRates == {1, 10 * RateDen, 10000 * RateDen}

\* `if !self.is_paused {`: time_accumulator += dt; step_duration = 1.0 / rate.
BeginPassF32(p, q) ==
    /\ hpc = "sched"
    /\ ~is_paused
    /\ meter.frames < MaxFrames
    /\ time_accumulator' =
           F32Add(time_accumulator, F32Div(F32OfInt(p), F32OfInt(q)))
    /\ acc_in' = time_accumulator'
    /\ step_duration' = F32Div(F32OfInt(RateDen), F32OfInt(updates_per_second))
    /\ loops' = 0
    /\ hpc' = "loop"
    /\ meter' = [p |-> p, q |-> q, frames |-> meter.frames + 1,
                 calls |-> meter.calls]
    /\ UNCHANGED <<current_sim, sim_config, is_paused, updates_per_second, bridgeVars,
                   threadVars, gridVars, panel_calls, pixel_buffer>>

\* One turn of the while loop: update(); time_accumulator -= step_duration.
LoopIterF32 ==
    /\ hpc = "loop"
    /\ LoopCond
    /\ Sim_update
    /\ time_accumulator' = F32Sub(time_accumulator, step_duration)
    /\ loops' = loops + 1
    /\ meter' = [meter EXCEPT !.calls = @ + 1]
    /\ UNCHANGED <<current_sim, sim_config, is_paused, updates_per_second, hpc, acc_in,
                   step_duration, panel_calls, pixel_buffer>>

\* A run from construction: the rate is set, by the slider or by a load, if
\* at all, in the first frame, every frame lasts the same dt, and the host
\* is never paused. (The worker of a loaded bridge is not followed here.)
NextF32 ==
    \/ \E rate \in MeterRates : meter.frames = 0 /\ Slider(rate)
    \/ \E kind \in SimKinds : meter.frames = 0 /\ load_sim(kind)
    \/ NoInput
    \/ \E d \in MeterDts :
           /\ meter.frames = 0 \/ <<meter.p, meter.q>> = d
           /\ BeginPassF32(d[1], d[2])
    \/ LoopIterF32
    \/ LoopExit
    \/ Render

SpecF32 == Init /\ [][NextF32]_vars

\* ------------------------------------------------- the recipe on its own
\* The recipe of the bridge's first worker against a receiver that takes
\* every snapshot, followed far enough for the history to reach its cap
\* (the history `observed` is not kept here).

\* WorkerCompute over the range 1..SolveLast.
SolveCompute(w) ==
    /\ workers[w].pc = "compute"
    /\ IF workers[w].i >= SolveLast
       THEN workers' = [workers EXCEPT ![w] = Exited("done")]
       ELSE LET i == workers[w].i + 1
                s == solve_step(workers[w].state, i)
            IN  workers' = [workers EXCEPT ![w].pc = "send",
                                           ![w].i = i,
                                           ![w].state = s]
    /\ UNCHANGED <<channel, hostVars>>

\* rx.try_recv() returns the snapshot of the sender blocked in send, which
\* becomes the bridge's state; the send returns Ok.
SolveTaken(w) ==
    /\ workers[w].pc = "send"
    /\ Connected(workers[w].chan)
    /\ state' = workers[w].state
    /\ workers' = [workers EXCEPT ![w].pc = "compute"]
    /\ last_poll' = "took"
    /\ UNCHANGED <<appVars, passVars, hpc, receiver, observed, channel,
                   gridVars, panel_calls, meter, pixel_buffer>>

NextSolve ==
    \/ receiver = 0 /\ load_sim("Collatz")
    \/ \E w \in WorkerIds : SolveCompute(w)
    \/ \E w \in WorkerIds : SolveTaken(w)

SpecSolve == Init /\ [][NextSolve]_vars

\* ----------------------------------------------------------------- render
\* w * h * 3, the length of the host's pixel buffer.
BufLen == GridWidth * GridHeight * 3

\* vec![0; w * h * 3]
ZeroBuffer == [k \in 1..BufLen |-> 0]

\* NoSim::render: buffer.fill(0)
NoSim_render(buffer) == [k \in 1..Len(buffer) |-> 0]

\* PixelFillSim::render: buffer.clear(), then three bytes per cell.
PixelFill_render(buffer) ==
    [k \in 1..(3 * Len(cells)) |->
        IF cells[((k - 1) \div 3) + 1] > 0
        THEN <<0, 255, 255>>[((k - 1) % 3) + 1]
        ELSE 20]

\* ((len / 525.0) * h) as usize, in exact arithmetic.
bar_height(len) == (len * GridHeight) \div LenScale

\* (y as u8).saturating_mul(2)
intensity(y) == IF 2 * (y % 256) > 255 THEN 255 ELSE 2 * (y % 256)

\* p0014::render: buffer.fill(0), then one bar per history entry; each pixel
\* is written at most once, so byte k is given pixel by pixel: pixel (x,
\* pixel_y) is drawn when column x has an entry, y = h - 1 - pixel_y is below
\* the bar and idx + 2 < buffer.len().
Collatz_render(st, buffer) ==
    [k \in 1..Len(buffer) |->
        LET pixel == (k - 1) \div 3
            x == pixel % GridWidth
            pixel_y == pixel \div GridWidth
            y == GridHeight - 1 - pixel_y
            idx == pixel * 3
            drawn == /\ x < Len(st.history)
                     /\ y >= 0
                     /\ y < bar_height(st.history[x + 1])
                     /\ idx + 2 < Len(buffer)
        IN  IF ~drawn THEN 0
            ELSE <<0, intensity(y), 255 - (intensity(y) \div 2)>>[((k - 1) % 3) + 1]]

\* self.current_sim.render(&mut pixel_buffer)
Sim_render(buffer) ==
    CASE current_sim = "Collatz"   -> Collatz_render(state, buffer)
      [] current_sim = "PixelFill" -> PixelFill_render(buffer)
      [] OTHER -> NoSim_render(buffer)

\* Buffers of any length up to BufLen + MaxSlack, zeroed or dirty.
Buffers ==
    {[k \in 1..n |-> fill] : n \in 0..(BufLen + MaxSlack), fill \in {0, 9}}

\* The grid after n calls of update().
GridAfter(n) == Repeat_update([cells |-> EmptyGrid, cursor_idx |-> 0], n)

\* render as a function of the capability's state and the buffer: the host
\* is at the central panel of a frame, with any capability in any state of
\* its own and any buffer.
InitRender ==
    /\ current_sim \in SimKinds
    /\ sim_config = config(current_sim)
    /\ is_paused = FALSE
    /\ updates_per_second = sim_config.default_speed
    /\ time_accumulator = 0
    /\ hpc = "spent"
    /\ acc_in = 0
    /\ step_duration = StepDuration(updates_per_second)
    /\ loops = 0
    /\ \E n \in 0..NumCells :
          /\ current_sim # "PixelFill" => n = 0
          /\ cells = GridAfter(n).cells
          /\ cursor_idx = GridAfter(n).cursor_idx
    /\ \E n \in 0..LastNum :
          /\ current_sim # "Collatz" => n = 0
          /\ state = RecipeOutput(n)
          /\ observed = [k \in 1..n |-> RecipeOutput(k)]
          /\ last_poll = (IF n = 0 THEN "none" ELSE "took")
          /\ receiver = (IF current_sim = "Collatz" THEN 1 ELSE 0)
          /\ workers = [w \in WorkerIds |->
                          IF current_sim = "Collatz" /\ w = 1
                          THEN [pc |-> "compute", i |-> n,
                                state |-> RecipeOutput(n), chan |-> 1]
                          ELSE Unborn]
    /\ channel = [c \in WorkerIds |-> << >>]
    /\ panel_calls = 0
    /\ meter = Unmetered
    /\ pixel_buffer \in Buffers

\* The call of render on the buffer.
RenderCall ==
    /\ hpc = "spent"
    /\ hpc' = "rendered"
    /\ pixel_buffer' = Sim_render(pixel_buffer)
    /\ UNCHANGED <<appVars, passVars, bridgeVars, threadVars, gridVars,
                   panel_calls, meter>>

NextRender == RenderCall

SpecRender == InitRender /\ [][NextRender]_vars

\* ====================================================================
\* Properties
\* ====================================================================

\* The worker of the latest reset (its id is the id of the bridge's channel).
Latest == workers[receiver]

\* C1: the worker spawned by the latest reset is at most one snapshot ahead
\* of the bridge (snapshots produced minus snapshots taken by update() is 0
\* or 1), and at most one snapshot is pending in the hand-off channel.
C1_AtMostOneAhead ==
    receiver # 0 =>
        /\ Latest.pc \in {"compute", "send"} =>
               Latest.i - Len(observed) \in {0, 1}
        /\ Latest.pc = "done" => Len(observed) = LastNum
        /\ Cardinality(Waiting) + Len(channel[receiver]) <= 1

\* C1 witness: after a reset and while paused, the second worker is blocked
\* in the send of its second snapshot, one ahead of the bridge.
C1_Witness ==
    /\ receiver = 2
    /\ is_paused
    /\ Latest.pc = "send"
    /\ Latest.i = 2
    /\ Len(observed) = 1

\* C2: since the last reset the bridge's state has taken the default value
\* and then the snapshots of the recipe in the order sent, none skipped,
\* repeated or reordered; once the recipe has exited the state stays at its
\* last snapshot.
C2_InOrder ==
    receiver # 0 =>
        /\ \A k \in 1..Len(observed) : observed[k] = RecipeOutput(k)
        /\ state = (IF observed = << >> THEN CollatzState_default
                    ELSE observed[Len(observed)])
        /\ Len(observed) <= LastNum
        /\ Latest.pc = "done" =>
               /\ Len(observed) = LastNum
               /\ state = RecipeOutput(LastNum)

\* C2 witness: the recipe has exited, a later update() found nothing, and the
\* state is still the last snapshot.
C2_Witness ==
    /\ receiver # 0
    /\ Latest.pc = "done"
    /\ last_poll = "empty"
    /\ state = RecipeOutput(LastNum)

\* C3: update() never waits for the worker: whenever the scheduling loop is
\* about to call it, the call can complete as one host step, whatever the
\* worker is doing.
C3_NeverBlocked ==
    /\ hpc = "loop" => ENABLED (LoopIter \/ LoopExit)
    /\ hpc \in {"spent", "skipped"} => ENABLED Render

\* C3 witness: an update() has completed although the worker had crashed.
C3_Witness ==
    /\ receiver # 0
    /\ Latest.pc = "panicked"
    /\ hpc = "loop"
    /\ loops > 0
    /\ last_poll = "empty"

\* C4: after reset() (also the one of new()) and before any update(), the
\* state is the default value, the bridge holds the receiver of a new channel
\* and only the newly spawned worker holds its sender.
C4_AfterReset ==
    (receiver # 0 /\ last_poll = "none") =>
        /\ state = CollatzState_default
        /\ observed = << >>
        /\ receiver = Spawned
        /\ channel[receiver] = << >>
        /\ Latest.pc \in {"compute", "send"}
        /\ Latest.i <= 1
        /\ \A w \in WorkerIds : workers[w].chan = receiver <=> w = receiver

\* C4 witness: a second reset has happened after the bridge had taken a
\* snapshot of the first worker, and no update() has run since.
C4_Witness ==
    /\ receiver = 2
    /\ last_poll = "none"
    /\ Latest.pc = "send"
    /\ workers[1].pc = "send"
    /\ workers[1].i = 2

\* A live worker whose channel the bridge no longer polls.
Abandoned(w) ==
    /\ workers[w].pc \in {"compute", "send"}
    /\ workers[w].chan # receiver

\* C5: an abandoned worker is left alone by the host (only its own steps
\* change it, and they change no host state) and, the threads being scheduled
\* fairly, it terminates: its send fails, or its recipe had already finished.
C5_AbandonedTerminates ==
    /\ \A w \in WorkerIds :
           Abandoned(w) ~> workers[w].pc \in {"stopped", "done"}
    /\ [][\A w \in WorkerIds :
             (Abandoned(w) /\ workers'[w] # workers[w]) =>
                 /\ UNCHANGED hostVars
                 /\ workers'[w].pc \in {"send", "stopped", "done"}]_vars

\* C5 witness: the first worker was abandoned and stopped on its failed send
\* while the second one runs.
C5_Witness ==
    /\ workers[1].pc = "stopped"
    /\ receiver = 2

\* C6 as stated: while paused, update() is not invoked at all in a frame.
C6_Original ==
    is_paused => loops + panel_calls = 0

\* C6 amended: while paused the scheduler invokes no update() and the
\* accumulator does not change; the only update() calls of a paused frame
\* are the FillCount calls of PixelFillSim's "Fill 1000x" button.
C6_PausedScheduler ==
    /\ [](is_paused =>
            /\ hpc \notin {"loop", "spent"}
            /\ loops = 0
            /\ panel_calls \in {0, FillCount}
            /\ panel_calls # 0 => current_sim = "PixelFill")
    /\ [][is_paused => time_accumulator' = time_accumulator]_vars

\* C6 witness: a paused frame has elapsed with time debt in the accumulator.
C6_Witness ==
    /\ is_paused
    /\ hpc = "skipped"
    /\ time_accumulator > 0

\* C7: while paused with the bridge active and no reset or load, no send of
\* the worker completes: the bridge's state stays, a worker blocked in its
\* send stays blocked, and the worker gets at most one snapshot ahead.
C7_PausedWorker ==
    [][(is_paused /\ receiver # 0 /\ receiver' = receiver) =>
          /\ state' = state
          /\ observed' = observed
          /\ Latest.pc = "send" => workers'[receiver] = Latest
          /\ workers'[receiver].i <= Len(observed) + 1]_vars

\* C7 witness: a paused frame has elapsed while the worker is blocked in a
\* send.
C7_Witness ==
    /\ is_paused
    /\ hpc = "skipped"
    /\ receiver # 0
    /\ Latest.pc = "send"

C9_Original ==
    hpc = "spent" =>
        0 <= time_accumulator /\ time_accumulator < step_duration

\* C9 amended: after every pass the accumulator is >= 0, and it is below
\* step_duration unless the pass made MaxLoops calls.
C9_Remainder ==
    hpc = "spent" =>
        /\ time_accumulator >= 0
        /\ time_accumulator < step_duration \/ loops = MaxLoops

\* C9 witness: a pass that made some calls ends below one step with a
\* non-zero remainder.
C9_Witness ==
    /\ hpc = "spent"
    /\ loops > 0
    /\ loops < MaxLoops
    /\ time_accumulator > 0
    /\ time_accumulator < step_duration

\* C10: no pass makes more than MaxLoops calls, and the debt a pass does not
\* spend stays in the accumulator (nothing is dropped), to be spent later.
C10_Cap ==
    /\ loops <= MaxLoops
    /\ hpc \in {"loop", "spent"} =>
           time_accumulator = acc_in - loops * step_duration

\* C10 witness: a pass that spends debt left over by a capped pass (more
\* calls than one frame or one stall alone can pay for at that rate).
C10_Witness ==
    /\ hpc = "spent"
    /\ step_duration = 3
    /\ loops > 167
    /\ loops < MaxLoops

\* floor(R * k * dt) of the measured run, for the nominal dt = p/q.
ExpectedCalls ==
    (updates_per_second * meter.frames * meter.p) \div (RateDen * meter.q)

\* C11 as stated: after k frames of a run at a constant rate and frame
\* interval, from a zero accumulator, never paused and never at the cap, the
\* update() calls issued are within 1 of floor(R * k * dt); at 10 Hz with
\* dt = 1/60 s, 60 frames give exactly 10 calls.
C11_Original ==
    (hpc = "spent" /\ loops < MaxLoops) =>
        /\ meter.calls - ExpectedCalls \in {-1, 0, 1}
        /\ (/\ updates_per_second = 10 * RateDen
            /\ <<meter.p, meter.q>> = <<1, 60>>
            /\ meter.frames = 60) => meter.calls = 10

\* C12: a step that changes the target rate leaves the accumulator as it
\* is and, unless it loads a capability, leaves the active capability's
\* rate configuration as it is; and throughout every scheduling pass
\* step_duration is the one of the rate current at that pass.
C12_RateChange ==
    /\ [][updates_per_second' # updates_per_second =>
             /\ time_accumulator' = time_accumulator
             /\ current_sim' = current_sim => sim_config' = sim_config]_vars
    /\ [](hpc \in {"loop", "spent"} =>
             /\ step_duration = StepDuration(updates_per_second)
             /\ sim_config = config(current_sim))

\* C12 witness: the rate was lowered from the Collatz default to 60 Hz while
\* the accumulator held a remainder; the next pass made its one call with
\* the new step_duration and the remainder is still there.
C12_Witness ==
    /\ current_sim = "Collatz"
    /\ updates_per_second = 60 * RateDen
    /\ hpc = "spent"
    /\ loops = 1
    /\ time_accumulator = 2

\* C13: one update() of the bridge either takes the one snapshot that is
\* waiting (a sender blocked in send on the bridge's channel), which becomes
\* the whole state while that sender alone proceeds, or, with no snapshot
\* waiting, changes neither the state nor any worker; it completes either
\* way.
C13_OneUpdate ==
    [][(hpc = "loop" /\ loops' = loops + 1 /\ current_sim = "Collatz") =>
          IF Waiting # {}
          THEN \E w \in Waiting :
                  /\ state' = workers[w].state
                  /\ workers' = [workers EXCEPT ![w].pc = "compute"]
                  /\ observed' = Append(observed, workers[w].state)
                  /\ last_poll' = "took"
          ELSE /\ state' = state
               /\ workers' = workers
               /\ observed' = observed
               /\ last_poll' = "empty"]_vars

\* C13 witness: the worker crashed after its first snapshot was taken; a
\* later update() found nothing and the state is still that snapshot.
C13_Witness ==
    /\ receiver # 0
    /\ Latest.pc = "panicked"
    /\ last_poll = "empty"
    /\ state = RecipeOutput(1)
    /\ hpc = "loop"

\* C14: only the worker spawned by the most recent reset holds a sender of
\* the channel the bridge polls, and every snapshot update() stores comes
\* from that worker, whatever older workers are doing.
C14_SingleProducer ==
    /\ [](receiver # 0 =>
             /\ receiver = Spawned
             /\ \A w \in WorkerIds : workers[w].chan = receiver => w = Spawned)
    /\ [][Len(observed') = Len(observed) + 1 =>
             /\ workers[Spawned].pc = "send"
             /\ workers[Spawned].chan = receiver
             /\ state' = workers[Spawned].state
             /\ \A w \in WorkerIds \ {Spawned} : workers'[w] = workers[w]]_vars

\* C14 witness: the first snapshot of the second worker has been stored while
\* the first worker is still blocked in the send of its second snapshot.
C14_Witness ==
    /\ receiver = 2
    /\ last_poll = "took"
    /\ state = RecipeOutput(1)
    /\ workers[1].pc = "send"
    /\ workers[1].i = 2

\* C15 as stated: after render(buffer), for each of the three capabilities,
\* the buffer holds exactly w * h * 3 bytes that depend on the capability's
\* state alone, whatever buffer came in.
C15_Original ==
    hpc = "rendered" =>
        /\ Len(pixel_buffer) = BufLen
        /\ pixel_buffer = Sim_render(ZeroBuffer)

\* C16: if from some point on the bridge is neither reset nor replaced and
\* the scheduler keeps issuing update() calls (so the host is not paused for
\* good), then, the worker being scheduled fairly, every snapshot of the
\* recipe becomes the bridge's state, in order, and the state ends as the
\* recipe's last snapshot and stays so.
C16_AllDelivered ==
    (/\ <>[](receiver # 0)
     /\ <>[][receiver' = receiver]_vars
     /\ []<><<LoopIter>>_vars)
    => <>[](/\ state = RecipeOutput(LastNum)
            /\ observed = [k \in 1..LastNum |-> RecipeOutput(k)])

\* C16 witness: the bridge was never reset, the recipe has run to its end,
\* and a pass of the running host finds the last snapshot in place.
C16_Witness ==
    /\ receiver = 1
    /\ ~is_paused
    /\ Latest.pc = "done"
    /\ state = RecipeOutput(LastNum)
    /\ hpc = "loop"
    /\ loops > 1
    /\ last_poll = "empty"

\* C17: in PixelFillSim the cursor never passes the number of cells and
\* exactly the cells before the cursor are 255, the others 0; an update()
\* below the cell count moves the cursor by one, an update() on a full grid
\* changes nothing, the panel's fill is FillCount such updates, and reset()
\* gives cursor 0 and all cells 0.
C17_PixelFill ==
    /\ [](/\ cursor_idx \in 0..NumCells
           /\ Len(cells) = NumCells
           /\ \A k \in 1..NumCells :
                  cells[k] = (IF k <= cursor_idx THEN 255 ELSE 0))
    /\ [][(hpc = "loop" /\ loops' = loops + 1 /\ current_sim = "PixelFill") =>
             IF cursor_idx < NumCells
             THEN cursor_idx' = cursor_idx + 1
             ELSE UNCHANGED gridVars]_vars
    /\ [][(panel_calls' = FillCount /\ panel_calls = 0) =>
             cursor_idx' = (IF cursor_idx + FillCount < NumCells
                            THEN cursor_idx + FillCount ELSE NumCells)]_vars
    /\ [][(ResetClick /\ current_sim = "PixelFill") =>
             (cursor_idx' = 0 /\ cells' = EmptyGrid)]_vars

\* C17 witness: the grid was filled by the panel and an update() of the
\* scheduler then found it full.
C17_Witness ==
    /\ current_sim = "PixelFill"
    /\ cursor_idx = NumCells
    /\ panel_calls = FillCount
    /\ hpc = "loop"
    /\ loops >= 1

\* The sequence length of each number of the range.
Lens == [n \in 1..SolveLast |-> CollatzLen(n, 1)]

\* s is the snapshot for number i: its history is the lengths of the last
\* min(i, HistoryCap) numbers in order, best_len the largest length of 1..i
\* and best_num the smallest number that has it.
IsSnapshotOf(s, i) ==
    LET n == IF i < HistoryCap THEN i ELSE HistoryCap IN
    /\ s.current_num = i
    /\ s.current_len = Lens[i]
    /\ Len(s.history) = n
    /\ \A j \in 1..n : s.history[j] = Lens[i - n + j]
    /\ \A m \in 1..i : Lens[m] <= s.best_len
    /\ s.best_num \in 1..i
    /\ Lens[s.best_num] = s.best_len
    /\ \A m \in 1..(s.best_num - 1) : Lens[m] < s.best_len

\* C18: the recipe sends one snapshot per number, in increasing order, and
\* the snapshot sent for number i (and so the one the bridge then holds) is
\* the snapshot of i as described by IsSnapshotOf.
C18_Snapshots ==
    /\ [](\A w \in WorkerIds :
             workers[w].pc = "send" =>
                 IsSnapshotOf(workers[w].state, workers[w].i))
    /\ [](last_poll = "took" => IsSnapshotOf(state, state.current_num))
    /\ [][\A w \in WorkerIds :
             (workers[w].pc = "compute" /\ workers'[w].pc = "send") =>
                 workers'[w].i = workers[w].i + 1]_vars

\* C18 witness: the snapshot of a number past the cap is being sent, its
\* history full.
C18_Witness ==
    /\ workers[1].pc = "send"
    /\ workers[1].i = HistoryCap + 2
    /\ Len(workers[1].state.history) = HistoryCap
    /\ state.current_num = HistoryCap + 1

\* C19: a load sets the rate to the default_speed of the capability loaded
\* and makes a fresh instance of it the active one, a Reset click changes
\* only the state of the active capability; both leave the accumulator and
\* the pause flag as they are (Reset also the rate), so the time they find
\* in the accumulator is spent on the new or reset simulation.
C19_LoadAndReset ==
    /\ [][\A kind \in SimKinds :
             load_sim(kind) =>
                 /\ updates_per_second' = config(kind).default_speed
                 /\ current_sim' = kind
                 /\ sim_config' = config(kind)
                 /\ time_accumulator' = time_accumulator
                 /\ is_paused' = is_paused
                 /\ cursor_idx' = 0 /\ cells' = EmptyGrid
                 /\ state' = CollatzState_default
                 /\ IF kind = "Collatz"
                    THEN receiver' = Spawned + 1 /\ receiver' # receiver
                    ELSE receiver' = 0]_vars
    /\ [][ResetClick =>
             /\ UNCHANGED <<current_sim, sim_config, updates_per_second,
                            time_accumulator, is_paused, passVars>>
             /\ current_sim # "Collatz" => UNCHANGED <<bridgeVars, threadVars>>
             /\ current_sim # "PixelFill" => UNCHANGED gridVars]_vars

\* C19 witness: Pixel Fill was loaded over the remainder the Collatz run had
\* left in the accumulator, and its first pass has spent the sum of the two.
C19_Witness ==
    /\ current_sim = "PixelFill"
    /\ hpc = "spent"
    /\ acc_in = 502
    /\ loops = 1
    /\ cursor_idx = 1
    /\ time_accumulator = 2

\* The bit pattern of f32 infinity.
F32Infinity == 255 * 2^23

\* C20: the target rate is positive in every reachable state, so the f32
\* step_duration of every scheduling pass is positive and finite, and the
\* rate configuration of the active capability, whichever was loaded, has
\* 0 < min_speed <= default_speed <= max_speed.
C20_PositiveRate ==
    /\ updates_per_second > 0
    /\ hpc \in {"loop", "spent"} =>
           /\ step_duration > 0
           /\ step_duration < F32Infinity
           /\ step_duration =
                  F32Div(F32OfInt(RateDen), F32OfInt(updates_per_second))
    /\ 0 < sim_config.min_speed
    /\ sim_config.min_speed <= sim_config.default_speed
    /\ sim_config.default_speed <= sim_config.max_speed
    /\ sim_config = config(current_sim)

\* C20 witness: at the slider's minimum of 0.5 Hz a pass has made a call
\* with a step_duration of 2 s.
C20_Witness ==
    /\ updates_per_second = 1
    /\ hpc = "spent"
    /\ loops = 1
    /\ step_duration = F32OfInt(2)

====
